---- MODULE Spec2Model ----
(***************************************************************************)
(* Model of cli_runner.py: the tokenizer, the keyword comparison and the   *)
(* command-line driver main().                                             *)
(*                                                                         *)
(* Texts are sequences of character code points (ASCII). A score is held   *)
(* as an integer number of hundredths (40.00 is 4000).                     *)
(***************************************************************************)
EXTENDS Integers, Sequences, FiniteSets, TLC

VARIABLES
    pc,           \* position in the run
    PyPDF2,       \* module global: TRUE when the import succeeded, FALSE for None
    args,         \* argparse namespace
    resume_text,  \* text of the resume
    job_desc,     \* text of the job description
    words,        \* compare_keywords' locals resume_words and job_keywords
    result,       \* (score, matched, missing) returned by compare_keywords
    obs           \* what the run did: exit status, message, calls made

vars == <<pc, PyPDF2, args, resume_text, job_desc, words, result, obs>>

None == "None"

(* a Python name that is not bound yet *)
Unbound == <<-1>>
NoWords == [resume_words |-> {}, job_keywords |-> {}]
NoResult == [score |-> -1, matched |-> <<>>, missing |-> <<>>]

----------------------------------------------------------------------------
(* Bounds of the checked input spaces *)

MaxLen == 3
NumWords == 10

(* '+', 'C', '_', 'c' *)
Alphabet == {43, 67, 95, 99}

RECURSIVE SeqsUpTo(_)
SeqsUpTo(n) ==
    IF n = 0 THEN {<<>>}
    ELSE LET shorter == SeqsUpTo(n - 1)
         IN  shorter \cup {Append(s, c) : s \in {t \in shorter : Len(t) = n - 1}, c \in Alphabet}

Texts == SeqsUpTo(MaxLen)

----------------------------------------------------------------------------
(* Characters *)

(* \w for ASCII: digits, letters, underscore *)
IsWordChar(c) == c \in 48..57 \/ c \in 65..90 \/ c \in 97..122 \/ c = 95

ToLower(c) == IF c \in 65..90 THEN c + 32 ELSE c

lower(text) == [i \in 1..Len(text) |-> ToLower(text[i])]

(* \b at position p: between s[p-1] and s[p] *)
IsWordAt(s, k) == k \in 1..Len(s) /\ IsWordChar(s[k])

IsBoundary(s, p) == IsWordAt(s, p - 1) # IsWordAt(s, p)

(* length of the run of \w starting at i *)
RECURSIVE RunLen(_, _)
RunLen(s, i) == IF IsWordAt(s, i) THEN 1 + RunLen(s, i + 1) ELSE 0

(* \b\w+\b anchored at i: the longest L (greedy, then backtracking) with a
   boundary on both sides; 0 when there is no match at i *)
MatchAt(s, i) ==
    LET cand == {L \in 1..RunLen(s, i) : IsBoundary(s, i + L)}
    IN  IF IsBoundary(s, i) /\ cand # {}
        THEN CHOOSE L \in cand : \A K \in cand : K <= L
        ELSE 0

RECURSIVE FindAll(_, _)
FindAll(s, i) ==
    IF i > Len(s) THEN <<>>
    ELSE LET L == MatchAt(s, i)
         IN  IF L = 0 THEN FindAll(s, i + 1)
             ELSE <<SubSeq(s, i, i + L - 1)>> \o FindAll(s, i + L)

(* variant: the text is not lowercased *)
simple_tokenizer_cased(text) == FindAll(text, 1)

simple_tokenizer(text) == FindAll(lower(text), 1)

Range(q) == {q[i] : i \in 1..Len(q)}

clean_and_tokenize(text) == Range(simple_tokenizer(text))

----------------------------------------------------------------------------
(* sorted(): ascending by code point, lexicographically *)

RECURSIVE LexLess(_, _)
LexLess(a, b) ==
    IF Len(a) = 0 THEN Len(b) > 0
    ELSE IF Len(b) = 0 THEN FALSE
    ELSE IF a[1] # b[1] THEN a[1] < b[1]
    ELSE LexLess(Tail(a), Tail(b))

(* variant: descending order *)
RECURSIVE sorted_desc(_)
sorted_desc(S) ==
    IF S = {} THEN <<>>
    ELSE LET m == CHOOSE x \in S : \A y \in S : x = y \/ LexLess(y, x)
         IN  <<m>> \o sorted_desc(S \ {m})

RECURSIVE sorted(_)
sorted(S) ==
    IF S = {} THEN <<>>
    ELSE LET m == CHOOSE x \in S : \A y \in S : x = y \/ LexLess(x, y)
         IN  <<m>> \o sorted(S \ {m})

(* variant: truncation instead of rounding *)
round2_trunc(m, n) == (m * 10000) \div n

(* round(m / n * 100, 2) in hundredths, ties to even *)
round2(m, n) ==
    LET q == (m * 10000) \div n
        r == (m * 10000) % n
    IN  IF 2 * r < n THEN q
        ELSE IF 2 * r > n THEN q + 1
        ELSE IF q % 2 = 0 THEN q ELSE q + 1

(* variant: the fraction is not scaled to a percentage *)
score_of_fraction(matched_keywords, job_keywords) ==
    IF job_keywords # {}
    THEN round2(Cardinality(matched_keywords), 100 * Cardinality(job_keywords))
    ELSE 0

(* variant: an empty job keyword set counts as a full match *)
score_of_vacuous(matched_keywords, job_keywords) ==
    IF job_keywords # {}
    THEN round2(Cardinality(matched_keywords), Cardinality(job_keywords))
    ELSE 10000

score_of(matched_keywords, job_keywords) ==
    IF job_keywords # {}
    THEN round2(Cardinality(matched_keywords), Cardinality(job_keywords))
    ELSE 0

matched_of(resume_words, job_keywords) == resume_words \cap job_keywords

(* variant: symmetric difference *)
missing_of_symmetric(resume_words, job_keywords) ==
    (job_keywords \ resume_words) \cup (resume_words \ job_keywords)

missing_of(resume_words, job_keywords) == job_keywords \ resume_words

(* variant: the score is taken over the union of both keyword sets *)
compare_keywords_union(rt, jt) ==
    LET resume_words == clean_and_tokenize(rt)
        job_keywords == clean_and_tokenize(jt)
        matched_keywords == matched_of(resume_words, job_keywords)
        missing_keywords == missing_of(resume_words, job_keywords)
    IN  [score   |-> score_of(matched_keywords, resume_words \cup job_keywords),
         matched |-> sorted(matched_keywords),
         missing |-> sorted(missing_keywords)]

compare_keywords(rt, jt) ==
    LET resume_words == clean_and_tokenize(rt)
        job_keywords == clean_and_tokenize(jt)
        matched_keywords == matched_of(resume_words, job_keywords)
        missing_keywords == missing_of(resume_words, job_keywords)
    IN  [score   |-> score_of(matched_keywords, job_keywords),
         matched |-> sorted(matched_keywords),
         missing |-> sorted(missing_keywords)]

(* the two token sets compare_keywords computes first *)
tokenized(rt, jt) ==
    [resume_words |-> clean_and_tokenize(rt), job_keywords |-> clean_and_tokenize(jt)]

----------------------------------------------------------------------------
(* Specification SpecCmp: compare_keywords over all short texts *)

NoArgs == [resume |-> None, job_file |-> None, job_text |-> <<>>, json |-> FALSE]

NoObs ==
    [exit_status |-> -1, message |-> "", traceback |-> FALSE, prompted |-> FALSE,
     resume_exists |-> FALSE, job_source |-> None, stdin_consulted |-> FALSE,
     extract_calls |-> 0, compare_calls |-> 0, rendered |-> None]

InitCmp ==
    /\ pc = "input"
    /\ PyPDF2 = TRUE
    /\ args = NoArgs
    /\ resume_text \in Texts
    /\ job_desc \in Texts
    /\ words = NoWords
    /\ result = NoResult
    /\ obs = NoObs

Compare ==
    /\ pc = "input"
    /\ words' = tokenized(resume_text, job_desc)
    /\ result' = compare_keywords(resume_text, job_desc)
    /\ pc' = "compared"
    /\ UNCHANGED <<PyPDF2, args, resume_text, job_desc, obs>>

NextCmp == Compare

SpecCmp == InitCmp /\ [][NextCmp]_vars

----------------------------------------------------------------------------
(* Specification SpecWords: compare_keywords over texts of up to NumWords
   distinct words, and a resume that gains words *)

(* "Y", "y2", "W", "w4", "U", "u6", ...: capitals, digits, and words that
   are prefixes of other words once lowercased *)
Word(k) == IF k % 2 = 1 THEN <<90 - k>> ELSE <<123 - k, 48 + (k % 10)>>

Sep == <<44, 32>>

(* the words i..j, comma separated *)
RECURSIVE WordsText(_, _)
WordsText(i, j) ==
    IF i > j THEN <<>>
    ELSE IF i = j THEN Word(i)
    ELSE Word(i) \o Sep \o WordsText(i + 1, j)

WordTexts == {WordsText(i, j) : i \in 1..NumWords, j \in 0..NumWords}

InitWords ==
    /\ pc = "input"
    /\ PyPDF2 = TRUE
    /\ args = NoArgs
    /\ resume_text \in WordTexts
    /\ job_desc \in WordTexts
    /\ words = NoWords
    /\ result = NoResult
    /\ obs = NoObs

(* the resume gains a word and the comparison is run again *)
AddWords ==
    /\ pc = "compared"
    /\ \E k \in 1..NumWords :
         /\ resume_text' = resume_text \o Sep \o Word(k)
         /\ words' = tokenized(resume_text', job_desc)
         /\ result' = compare_keywords(resume_text', job_desc)
    /\ pc' = "recompared"
    /\ UNCHANGED <<PyPDF2, args, job_desc, obs>>

NextWords == Compare \/ AddWords

SpecWords == InitWords /\ [][NextWords]_vars

----------------------------------------------------------------------------
(* Specification Spec: one run of main() *)

(* values of --resume: absent, empty, or a path *)
ResumeArgs == {None, "", "cv.txt", "cv.PDF", "cv.docx", "cv"}

(* values of --job-file *)
JobFileArgs == {None, "jd.txt"}

(* contents of files, of standard input and of --job-text; a file that
   exists is taken to be readable UTF-8 text, or a PDF that parses *)
FileTexts == {<<>>, <<43, 43>>, <<99>>, <<67, 43, 95>>}

(* values of --job-text: <<>> when absent, <<text>> when given *)
JobTextArgs == {<<>>} \cup {<<t>> : t \in FileTexts}

(* what input() yields: EOFError, or a line with or without blanks around it *)
PromptLines ==
    {[eof |-> TRUE, padded |-> FALSE, core |-> ""]} \cup
    {[eof |-> FALSE, padded |-> b, core |-> c] : b \in BOOLEAN, c \in {"", "cv.txt", "cv.docx"}}

strip(line) == line.core

(* Path.suffix *)
suffix_of(path) ==
    CASE path = "cv.txt"  -> ".txt"
      [] path = "cv.PDF"  -> ".PDF"
      [] path = "cv.docx" -> ".docx"
      [] path = "jd.txt"  -> ".txt"
      [] OTHER            -> ""

(* str.lower on a suffix *)
lower_suffix(sfx) == IF sfx = ".PDF" THEN ".pdf" ELSE sfx

(* truthiness of an optional string argument *)
truthy_path(a) == a # None /\ a # ""

truthy_text(a) == a # <<>> /\ a[1] # <<>>

(* sys.exit(2) after print(msg) *)
exit2(msg) == [obs EXCEPT !.exit_status = 2, !.message = msg]

(* an exception nobody catches: traceback on stderr, exit status 1 *)
uncaught(o) == [o EXCEPT !.exit_status = 1, !.traceback = TRUE]

Init ==
    /\ pc = "parse"
    /\ PyPDF2 \in BOOLEAN
    /\ args = NoArgs
    /\ resume_text = Unbound
    /\ job_desc = Unbound
    /\ words = NoWords
    /\ result = NoResult
    /\ obs = NoObs

(* argparse: the two job options exclude each other (runs with -h, which
   only print the help, are not among the command lines drawn here) *)
ParseArgs ==
    /\ pc = "parse"
    /\ \E r \in ResumeArgs, jf \in JobFileArgs, jt \in JobTextArgs, js \in BOOLEAN :
         IF jf # None /\ jt # <<>>
         THEN /\ obs' = exit2("usage: not allowed with argument")
              /\ pc' = "done"
              /\ UNCHANGED args
         ELSE /\ args' = [resume |-> r, job_file |-> jf, job_text |-> jt, json |-> js]
              /\ pc' = "resume"
              /\ UNCHANGED obs
    /\ UNCHANGED <<PyPDF2, resume_text, job_desc, words, result>>

(* prompt for the resume path when --resume gave none *)
ResolveResume ==
    /\ pc = "resume"
    /\ IF ~truthy_path(args.resume)
       THEN \E line \in PromptLines :
              LET resume_input == IF line.eof THEN "" ELSE strip(line)
              IN  IF resume_input = ""
                  THEN /\ obs' = [exit2("No resume provided") EXCEPT !.prompted = TRUE]
                       /\ pc' = "done"
                       /\ UNCHANGED args
                  ELSE /\ args' = [args EXCEPT !.resume = resume_input]
                       /\ obs' = [obs EXCEPT !.prompted = TRUE]
                       /\ pc' = "exists"
       ELSE /\ pc' = "exists"
            /\ UNCHANGED <<args, obs>>
    /\ UNCHANGED <<PyPDF2, resume_text, job_desc, words, result>>

(* variant: the missing file is reported but the run goes on *)
CheckResume_NoExit ==
    /\ pc = "exists"
    /\ \E exists \in BOOLEAN :
         IF ~exists
         THEN /\ obs' = [obs EXCEPT !.message = "Resume file not found"]
              /\ pc' = "job"
         ELSE /\ obs' = [obs EXCEPT !.resume_exists = TRUE]
              /\ pc' = "job"
    /\ UNCHANGED <<PyPDF2, args, resume_text, job_desc, words, result>>

CheckResume ==
    /\ pc = "exists"
    /\ \E exists \in BOOLEAN :
         IF ~exists
         THEN /\ obs' = exit2("Resume file not found")
              /\ pc' = "done"
         ELSE /\ obs' = [obs EXCEPT !.resume_exists = TRUE]
              /\ pc' = "job"
    /\ UNCHANGED <<PyPDF2, args, resume_text, job_desc, words, result>>

(* the job description: --job-text, else --job-file, else standard input *)
ReadJob ==
    /\ pc = "job"
    /\ IF truthy_text(args.job_text)
       THEN /\ job_desc' = args.job_text[1]
            /\ obs' = [obs EXCEPT !.job_source = "text"]
            /\ pc' = "extract"
       ELSE IF truthy_path(args.job_file)
       THEN \E exists \in BOOLEAN, content \in FileTexts :
              IF ~exists
              THEN /\ obs' = exit2("Job file not found")
                   /\ pc' = "done"
                   /\ UNCHANGED job_desc
              ELSE /\ job_desc' = content
                   /\ obs' = [obs EXCEPT !.job_source = "file"]
                   /\ pc' = "extract"
       ELSE \E isatty \in BOOLEAN, piped \in FileTexts :
              IF isatty
              THEN /\ obs' = [exit2("No job description provided") EXCEPT !.stdin_consulted = TRUE]
                   /\ pc' = "done"
                   /\ UNCHANGED job_desc
              ELSE /\ job_desc' = piped
                   /\ obs' = [obs EXCEPT !.job_source = "stdin", !.stdin_consulted = TRUE]
                   /\ pc' = "extract"
    /\ UNCHANGED <<PyPDF2, args, resume_text, words, result>>

(* the resume text, by extension *)
ExtractResume ==
    /\ pc = "extract"
    /\ LET suffix == lower_suffix(suffix_of(args.resume))
           called == [obs EXCEPT !.extract_calls = @ + 1]
       IN  IF suffix = ".pdf"
           THEN \E content \in FileTexts :
                  IF ~PyPDF2
                  THEN /\ obs' = uncaught(called)
                       /\ pc' = "done"
                       /\ UNCHANGED resume_text
                  ELSE /\ resume_text' = content
                       /\ obs' = called
                       /\ pc' = "compare"
           ELSE IF suffix = ".txt"
           THEN \E content \in FileTexts :
                  /\ resume_text' = content
                  /\ obs' = called
                  /\ pc' = "compare"
           ELSE /\ obs' = exit2("Unsupported resume format")
                /\ pc' = "done"
                /\ UNCHANGED resume_text
    /\ UNCHANGED <<PyPDF2, args, job_desc, words, result>>

CallCompare ==
    /\ pc = "compare"
    /\ words' = tokenized(resume_text, job_desc)
    /\ result' = compare_keywords(resume_text, job_desc)
    /\ obs' = [obs EXCEPT !.compare_calls = @ + 1]
    /\ pc' = "render"
    /\ UNCHANGED <<PyPDF2, args, resume_text, job_desc>>

(* print the result; main returns and the process exits with status 0 *)
Render ==
    /\ pc = "render"
    /\ obs' = [obs EXCEPT !.rendered = IF args.json THEN "json" ELSE "text",
                          !.exit_status = 0]
    /\ pc' = "done"
    /\ UNCHANGED <<PyPDF2, args, resume_text, job_desc, words, result>>

Next ==
    \/ ParseArgs
    \/ ResolveResume
    \/ CheckResume
    \/ ReadJob
    \/ ExtractResume
    \/ CallCompare
    \/ Render

Spec == Init /\ [][Next]_vars

----------------------------------------------------------------------------
(* Properties *)

Compared == pc \in {"compared", "recompared"}

Elements(q) == {q[i] : i \in 1..Len(q)}

(* C1 as stated: whenever the two texts tokenize to identical sets, the
   score is 100.00 and nothing is missing, the empty sets included *)
C1_AsStated ==
    (Compared /\ clean_and_tokenize(resume_text) = clean_and_tokenize(job_desc))
        => (result.score = 10000 /\ result.missing = <<>>)

(* C1 amended: identical token sets give no missing keywords, and a score of
   100.00 when the sets are non-empty and of 0 when they are empty *)
C1_IdenticalSets ==
    (Compared /\ clean_and_tokenize(resume_text) = clean_and_tokenize(job_desc))
        => /\ result.missing = <<>>
           /\ result.score = IF clean_and_tokenize(job_desc) = {} THEN 0 ELSE 10000

C1_Witness ==
    /\ pc = "compared"
    /\ resume_text # job_desc
    /\ words.resume_words = words.job_keywords
    /\ Cardinality(words.job_keywords) = 2
    /\ result.score = 10000

(* C2: a finished run has exit status 0 with the result rendered, or exit
   status 2 with a message printed and no traceback *)
C2_ExitOutcomes ==
    pc = "done" =>
        \/ obs.exit_status = 0 /\ obs.rendered # None
        \/ obs.exit_status = 2 /\ obs.message # "" /\ ~obs.traceback

(* C3: standard input is consulted exactly when neither job option was
   given; a given --job-text, empty or not, is the job description used *)
C3_JobTextGiven ==
    LET given_text == args.job_text # <<>>
        neither == ~given_text /\ args.job_file = None
        past_job == pc \in {"extract", "compare", "render"} \/ obs.job_source # None
    IN  /\ obs.stdin_consulted => neither
        /\ (past_job /\ neither) => obs.stdin_consulted
        /\ given_text =>
              /\ ~obs.stdin_consulted
              /\ obs.message # "No job description provided"
              /\ past_job => job_desc = args.job_text[1]

(* C4: matched and missing partition the job tokens; matched lies inside
   the resume tokens and missing outside them *)
C4_Partition ==
    Compared =>
        LET matched == Elements(result.matched)
            missing == Elements(result.missing)
            jobTokens == clean_and_tokenize(job_desc)
            resumeTokens == clean_and_tokenize(resume_text)
        IN  /\ matched \subseteq jobTokens
            /\ missing \subseteq jobTokens
            /\ matched \cap missing = {}
            /\ matched \cup missing = jobTokens
            /\ matched \subseteq resumeTokens
            /\ missing \cap resumeTokens = {}

C4_Witness ==
    /\ pc = "compared"
    /\ Len(result.matched) = 1
    /\ Len(result.missing) = 1
    /\ resume_text = <<67>>

(* C5: compare_keywords runs at most once, and only with a non-empty resume
   path of an existing file with extension .txt or .pdf and a resolved job
   description; a run that exits with status 2 neither compares nor renders,
   and no extraction is attempted for another extension *)
C5_CompareGuarded ==
    LET supported == lower_suffix(suffix_of(args.resume)) \in {".txt", ".pdf"}
    IN  /\ obs.compare_calls <= 1
        /\ obs.compare_calls = 1 =>
              /\ args.resume \notin {None, ""}
              /\ obs.resume_exists
              /\ obs.job_source \in {"text", "file", "stdin"}
              /\ job_desc # Unbound
              /\ resume_text # Unbound
              /\ supported
        /\ obs.exit_status = 2 =>
              /\ obs.compare_calls = 0
              /\ obs.rendered = None
              /\ result = NoResult
        /\ ~supported => obs.extract_calls = 0

C5_Witness ==
    /\ pc = "done"
    /\ obs.compare_calls = 1
    /\ obs.prompted
    /\ obs.job_source = "stdin"
    /\ obs.exit_status = 0

(* C6: with job tokens, the score is the hundredth nearest to
   |matched| / |jobTokens| * 100; it always lies in [0, 100]; 4 of 10 is 40.00 *)
C6_Score ==
    Compared =>
        LET n == Cardinality(clean_and_tokenize(job_desc))
            m == Cardinality(clean_and_tokenize(resume_text) \cap clean_and_tokenize(job_desc))
            d == result.score * n - 10000 * m
        IN  /\ n > 0 => (2 * d <= n /\ -2 * d <= n)
            /\ result.score >= 0
            /\ result.score <= 10000
            /\ (m = 4 /\ n = 10) => result.score = 4000

C6_Witness ==
    /\ Compared
    /\ Cardinality(words.job_keywords) = 10
    /\ Len(result.matched) = 4
    /\ result.score = 4000

(* C7: a job text without tokens gives score 0 and two empty lists *)
C7_EmptyJob ==
    (Compared /\ clean_and_tokenize(job_desc) = {})
        => (result.score = 0 /\ result.matched = <<>> /\ result.missing = <<>>)

C7_Witness ==
    /\ pc = "compared"
    /\ job_desc = <<43, 43>>
    /\ words.resume_words # {}
    /\ result = [score |-> 0, matched |-> <<>>, missing |-> <<>>]

WordCodes == (48..57) \cup (65..90) \cup (97..122) \cup {95}

Lowered(t) == [i \in 1..Len(t) |-> IF t[i] \in 65..90 THEN t[i] + 32 ELSE t[i]]

(* the maximal runs of word characters of s *)
MaximalRuns(s) ==
    {SubSeq(s, i, j) : <<i, j>> \in
        {ij \in (1..Len(s)) \X (1..Len(s)) :
            /\ ij[1] <= ij[2]
            /\ \A k \in ij[1]..ij[2] : s[k] \in WordCodes
            /\ (ij[1] = 1 \/ s[ij[1] - 1] \notin WordCodes)
            /\ (ij[2] = Len(s) \/ s[ij[2] + 1] \notin WordCodes)}}

SameUpToCase(a, b) ==
    /\ Len(a) = Len(b)
    /\ \A i \in 1..Len(a) :
          \/ a[i] = b[i]
          \/ a[i] \in 65..90 /\ b[i] = a[i] + 32
          \/ b[i] \in 65..90 /\ a[i] = b[i] + 32

(* C8: the tokens are the maximal runs of word characters of the lowercased
   text: non-empty, of word characters only, without capitals; texts that
   differ only in case give the same set; "C++" gives {"c"}; a text without
   word characters gives the empty set *)
C8_Tokens ==
    Compared =>
        /\ words.resume_words = MaximalRuns(Lowered(resume_text))
        /\ words.job_keywords = MaximalRuns(Lowered(job_desc))
        /\ \A t \in words.resume_words \cup words.job_keywords :
              /\ Len(t) > 0
              /\ \A i \in 1..Len(t) : t[i] \in WordCodes /\ t[i] \notin 65..90
        /\ SameUpToCase(resume_text, job_desc) => words.resume_words = words.job_keywords
        /\ resume_text = <<67, 43, 43>> => words.resume_words = {<<99>>}
        /\ (\A i \in 1..Len(resume_text) : resume_text[i] \notin WordCodes)
              => words.resume_words = {}

C8_Witness ==
    /\ pc = "compared"
    /\ resume_text = <<67, 43, 43>>
    /\ job_desc = <<99, 43, 95>>
    /\ words.resume_words = {<<99>>}
    /\ words.job_keywords = {<<99>>, <<95>>}

(* a comes strictly before b in lexicographic order of code points *)
Precedes(a, b) ==
    \E k \in 1..(Len(a) + 1) :
        /\ \A i \in 1..(k - 1) : i <= Len(b) /\ a[i] = b[i]
        /\ \/ k = Len(a) + 1 /\ k <= Len(b)
           \/ k <= Len(a) /\ k <= Len(b) /\ a[k] < b[k]

StrictlyAscending(q) == \A i \in 1..(Len(q) - 1) : Precedes(q[i], q[i + 1])

C9_Sorted ==
    Compared =>
        /\ StrictlyAscending(result.matched)
        /\ StrictlyAscending(result.missing)
        /\ Elements(result.matched) = words.resume_words \cap words.job_keywords
        /\ Elements(result.missing) = words.job_keywords \ words.resume_words

C9_SameSetsSameResult ==
    (pc' = "recompared" /\ words' = words) => result' = result

(* C9: both keyword lists are strictly ascending in lexicographic order, hold
   exactly the matched and the missing tokens, and a second call on texts with
   the same token sets returns the same result *)
C9_Deterministic == []C9_Sorted /\ [][C9_SameSetsSameResult]_vars

C9_Witness ==
    /\ pc = "recompared"
    /\ Len(result.matched) >= 3
    /\ Len(result.missing) >= 3
    /\ Len(simple_tokenizer(resume_text)) > Cardinality(words.resume_words)

C10_NeverLower ==
    (pc' = "recompared" /\ words.resume_words \subseteq words'.resume_words) =>
        /\ result'.score >= result.score
        /\ Elements(result.matched) \subseteq Elements(result'.matched)
        /\ Elements(result'.missing) \subseteq Elements(result.missing)

C10_FullScore ==
    Compared =>
        (result.score = 10000 <=>
            (words.job_keywords # {} /\ words.job_keywords \subseteq words.resume_words))

(* C10: a resume that gains words keeps or raises its score, keeps its
   matched keywords and gains no missing ones; the score is 100.00 exactly
   when the job tokens are non-empty and all in the resume *)
C10_Monotone == [][C10_NeverLower]_vars /\ []C10_FullScore

C10_Witness ==
    /\ pc = "recompared"
    /\ words.resume_words \ words.job_keywords # {}
    /\ Len(result.missing) = 1
    /\ result.score = 6667

====
